---------------------------- MODULE Spec2Model ----------------------------
(***************************************************************************)
(* A model of cora/core/skysim.py: clarray, mkfullsky, mkfullsky_der1 and  *)
(* mkconstrained.  Each function is a small state machine whose steps are  *)
(* the statements of the function that can raise or that write the result. *)
(* Real numbers are modelled as exact fractions <<n, d>>; a zero           *)
(* denominator stands for the IEEE values nan (<<0,0>>) and +-inf          *)
(* (<<+-1,0>>) a float64 array division produces instead of raising.       *)
(* Arrays are functions on 0..n-1, as in the source.                       *)
(***************************************************************************)
EXTENDS Integers, Sequences, FiniteSets, TLC

VARIABLES
    c_args,      \* clarray: the arguments [aps, lmax, zarray, zromb, zwidth]
    c_pc,        \* clarray: position in the function
    c_zhalf,     \* clarray: zhalf (line 48)
    c_lsections, \* clarray: lsections (line 57), a sequence of index arrays
    c_k,         \* clarray: number of sections the loop of line 61 has done
    c_cla,       \* clarray: the array returned (cla, or the direct result)
    c_writes,    \* clarray: how many times each cla[l] was assigned (line 73)
    c_err        \* clarray: the exception raised, "" when none

VARIABLES
    s_args,      \* mkfullsky(_der1): [fn, isList, corr, alms, given]
    s_pc,        \* position in the function
    s_l,         \* the multipole of the loop of lines 123 / 202
    s_ii,        \* the tensor of the inner loop (1-based), or of the synthesis loop
    s_draws,     \* calls of nputil.complex_std_normal so far
    s_gaussvars, \* gaussvars of the current multipole: <<kind, index>>
    s_noise,     \* per multipole, the gaussvars obtained for it
    s_requests,  \* the factorizations requested of nputil.matrix_root_manynull
    s_alm,       \* alm_list: per tensor and multipole <<noise kind, noise index, sign>>
    s_out,       \* sky / resmaps: the per-tensor results appended so far
    s_result,    \* the value returned: [bare, items]
    s_err        \* the exception raised, "" when none

VARIABLES
    m_args,      \* mkconstrained: [numz, n2, maxl, evecs, constraints]
    m_pc,        \* position in the function
    m_i,         \* the index of the running loop
    m_trans,     \* trans (line 283), per multipole a nmodes x numz matrix
    m_tmat,      \* tmat (line 284), per multipole a nmodes x nmodes matrix
    m_cmap,      \* cmap (line 285), per coefficient index the constraint values
    m_cv,        \* cv (line 286), per slice and coefficient index
    m_solves,    \* the coefficient indices la.solve was called for
    m_result,    \* the harmonic coefficients of the maps returned, <<>> before
    m_err        \* the exception raised, "" when none

cvars == <<c_args, c_pc, c_zhalf, c_lsections, c_k, c_cla, c_writes, c_err>>

svars == <<s_args, s_pc, s_l, s_ii, s_draws, s_gaussvars, s_noise, s_requests,
           s_alm, s_out, s_result, s_err>>

mvars == <<m_args, m_pc, m_i, m_trans, m_tmat, m_cmap, m_cv, m_solves, m_result,
           m_err>>

vars == <<cvars, svars, mvars>>

-----------------------------------------------------------------------------
(* Bounds of the model. *)

MaxLmax == 10
MaxZlen == 2
MaxCorr == 2
MaxL == 2
MaxNumz == 2

\* the coordinate values a zarray is built from, the channel widths (<<>> is
\* None) and the Romberg orders tried
Zvals == {0, 2}
Zwidths == {<<>>, <<2>>}
Zrombs == {0, 1}

-----------------------------------------------------------------------------
(* Exact fractions with IEEE special values. *)

Abs(x) == IF x < 0 THEN -x ELSE x

Sign(x) == IF x < 0 THEN -1 ELSE IF x > 0 THEN 1 ELSE 0

RECURSIVE GCD(_, _)
GCD(a, b) == IF b = 0 THEN a ELSE GCD(b, a % b)

Norm(n, d) ==
    IF d = 0 THEN <<Sign(n), 0>>
    ELSE LET g == GCD(Abs(n), Abs(d))
             s == Sign(d)
         IN  <<(s * n) \div g, (s * d) \div g>>

Rat(i) == <<i, 1>>

NaN == <<0, 0>>

RAdd(x, y) ==
    IF x[2] = 0 /\ y[2] = 0
    THEN (IF x[1] = y[1] THEN x ELSE NaN)
    ELSE IF x[2] = 0 \/ y[2] = 0
    THEN Norm(x[1] * y[2] + y[1] * x[2], 0)
    ELSE LET g == GCD(x[2], y[2])
         IN  Norm(x[1] * (y[2] \div g) + y[1] * (x[2] \div g), (x[2] \div g) * y[2])

RNeg(x) == <<-x[1], x[2]>>

RSub(x, y) == RAdd(x, RNeg(y))

RMul(x, y) ==
    IF x[2] = 0 \/ y[2] = 0 \/ x[1] = 0 \/ y[1] = 0
    THEN Norm(x[1] * y[1], x[2] * y[2])
    ELSE LET g == GCD(Abs(x[1]), y[2])
             h == GCD(Abs(y[1]), x[2])
         IN  Norm((x[1] \div g) * (y[1] \div h), (x[2] \div h) * (y[2] \div g))

\* float64 division: 0/0 is nan and x/0 is inf, no exception
RDiv(x, y) ==
    IF x[2] = 0 \/ y[2] = 0 \/ y[1] = 0
    THEN Norm(x[1] * y[2], x[2] * y[1])
    ELSE RMul(x, Norm(y[2], y[1]))

RAbs(x) == <<Abs(x[1]), x[2]>>

RECURSIVE Pow2(_)
Pow2(k) == IF k = 0 THEN 1 ELSE 2 * Pow2(k - 1)

RECURSIVE RSum(_, _)
\* sum of f over the finite set of indices S
RSum(f, S) ==
    IF S = {} THEN Rat(0)
    ELSE LET i == CHOOSE x \in S : TRUE IN RAdd(f[i], RSum(f, S \ {i}))

-----------------------------------------------------------------------------
(* The values of a function's variables while another function is run. *)

CIdle ==
    <<[aps |-> 1, lmax |-> 0, zarray |-> <<>>, zromb |-> 0, zwidth |-> <<>>],
      "idle", NaN, <<>>, 0, <<>>, <<>>, "">>

SIdle ==
    <<[fn |-> "", isList |-> FALSE, corr |-> <<>>, alms |-> FALSE, given |-> FALSE],
      "idle", 0, 0, 0, <<"none", 0>>, <<>>, {}, <<>>, <<>>, [bare |-> FALSE, items |-> <<>>], "">>

MIdle ==
    <<[numz |-> 0, n2 |-> 0, maxl |-> 0, evecs |-> <<>>, constraints |-> <<>>],
      "idle", 0, <<>>, <<>>, <<>>, <<>>, {}, <<>>, "">>

-----------------------------------------------------------------------------
(* clarray *)

\* the angular power spectra the caller may pass: one symmetric in (z1, z2)
\* and decaying with |z1 - z2|, one asymmetric
aps(id, l, z1, z2) ==
    IF id = 1
    THEN RDiv(Rat(l + 1), RAdd(Rat(1), RAbs(RSub(z1, z2))))
    ELSE RAdd(Rat(l), RAdd(RMul(Rat(2), z1), z2))

ApsIds == {1, 2}

Len0(a) == Cardinality(DOMAIN a)

\* np.arange(n)
arange(n) == [i \in 0 .. n - 1 |-> i]

\* np.sort(a)
npsort(a) ==
    CHOOSE s \in [DOMAIN a -> {a[i] : i \in DOMAIN a}] :
        /\ \A i \in DOMAIN s : \A j \in DOMAIN s : i <= j => s[i] <= s[j]
        /\ \A v \in {a[i] : i \in DOMAIN a} :
               Cardinality({i \in DOMAIN a : a[i] = v})
                   = Cardinality({i \in DOMAIN s : s[i] = v})

\* np.linspace(a, b, n)[k]
linspace(a, b, n, k) ==
    RAdd(a, RDiv(RMul(Rat(k), RSub(b, a)), Rat(n - 1)))

\* a direct evaluation on the sorted coordinates (what the integration branch
\* takes its bin width from), for comparison
ClarrayDirectSorted(id, lmax, zarray) ==
    LET ls == arange(lmax + 1)
        zs == npsort(zarray)
    IN  [l \in DOMAIN ls |->
            [i \in DOMAIN zarray |->
                [j \in DOMAIN zarray |-> aps(id, ls[l], Rat(zs[i]), Rat(zs[j]))]]]

\* lines 40-44, the zromb == 0 branch: aps on the three broadcast index arrays
ClarrayDirect(id, lmax, zarray) ==
    LET ls == arange(lmax + 1)
    IN  [l \in DOMAIN ls |->
            [i \in DOMAIN zarray |->
                [j \in DOMAIN zarray |->
                    aps(id, ls[l], Rat(zarray[i]), Rat(zarray[j]))]]]

\* scipy.integrate.romb over samples y (a function on 0..2^k) spaced dx
RECURSIVE RombR(_, _, _, _, _)
RombR(i, j, y, dx, N) ==
    IF i = 0
    THEN RMul(RDiv(RAdd(y[0], y[N]), Rat(2)), RMul(Rat(N), dx))
    ELSE IF j = 0
    THEN LET start == N \div Pow2(i)
             step == N \div Pow2(i - 1)
             h == RDiv(RMul(Rat(N), dx), Rat(Pow2(i - 1)))
             idx == {x \in start .. N - 1 : (x - start) % step = 0}
         IN  RMul(<<1, 2>>, RAdd(RombR(i - 1, 0, y, dx, N), RMul(h, RSum(y, idx))))
    ELSE LET prev == RombR(i, j - 1, y, dx, N)
         IN  RAdd(prev,
                  RDiv(RSub(prev, RombR(i - 1, j - 1, y, dx, N)),
                       Rat(Pow2(2 * j) - 1)))

romb(y, dx, k) == RombR(k, k, y, dx, Pow2(k))

\* np.array_split(np.arange(n), nsec) for nsec > 0
array_split(n, nsec) ==
    LET each == n \div nsec
        extras == n % nsec
        size(s) == IF s <= extras THEN each + 1 ELSE each
        RECURSIVE start(_)
        start(s) == IF s = 1 THEN 0 ELSE start(s - 1) + size(s - 1)
    IN  [s \in 1 .. nsec |-> [x \in 0 .. size(s) - 1 |-> start(s) + x]]

\* za (lines 53-55), flattened index i*zint + a
zaAt(zarray, zhalf, zint, i, a) ==
    RAdd(Rat(zarray[i]), linspace(RNeg(zhalf), zhalf, zint, a))

\* lines 62-73 for one multipole l: the bin-averaged C_l(z_i, z_j)
ClarrayBin(id, l, zarray, zhalf, zromb, i, j) ==
    LET zint == Pow2(zromb) + 1
        zspace == RDiv(RMul(Rat(2), zhalf), Rat(Pow2(zromb)))
        inner(a) ==
            romb([b \in 0 .. zint - 1 |->
                      aps(id, l, zaAt(zarray, zhalf, zint, i, a),
                                 zaAt(zarray, zhalf, zint, j, b))],
                 zspace, zromb)
        outer == romb([a \in 0 .. zint - 1 |-> inner(a)], zspace, zromb)
        width == RMul(Rat(2), zhalf)
    IN  RDiv(outer, RMul(width, width))

ClarrayInputs ==
    [aps : ApsIds,
     lmax : 0 .. MaxLmax,
     zarray : UNION {[0 .. n - 1 -> Zvals] : n \in 1 .. MaxZlen},
     zromb : Zrombs,
     zwidth : Zwidths]

CInit ==
    /\ c_args \in ClarrayInputs
    /\ c_pc = "start"
    /\ c_zhalf = NaN
    /\ c_lsections = <<>>
    /\ c_k = 0
    /\ c_cla = <<>>
    /\ c_writes = [l \in 0 .. c_args.lmax |-> 0]
    /\ c_err = ""
    /\ m_args = MIdle[1] /\ m_pc = MIdle[2] /\ m_i = MIdle[3]
    /\ m_trans = MIdle[4] /\ m_tmat = MIdle[5] /\ m_cmap = MIdle[6]
    /\ m_cv = MIdle[7] /\ m_solves = MIdle[8] /\ m_result = MIdle[9]
    /\ m_err = MIdle[10]
    /\ s_args = SIdle[1] /\ s_pc = SIdle[2] /\ s_l = SIdle[3]
    /\ s_ii = SIdle[4] /\ s_draws = SIdle[5] /\ s_gaussvars = SIdle[6]
    /\ s_noise = SIdle[7] /\ s_requests = SIdle[8] /\ s_alm = SIdle[9]
    /\ s_out = SIdle[10] /\ s_result = SIdle[11] /\ s_err = SIdle[12]

\* lines 39-44
CReturnDirect ==
    /\ c_pc = "start"
    /\ c_args.zromb = 0
    /\ c_cla' = ClarrayDirect(c_args.aps, c_args.lmax, c_args.zarray)
    /\ c_pc' = "returned"
    /\ UNCHANGED <<svars, mvars, c_args, c_zhalf, c_lsections, c_k, c_writes, c_err>>

\* lines 47-48: zsort[1] raises IndexError on a one-element zarray
CBinWidth ==
    /\ c_pc = "start"
    /\ c_args.zromb # 0
    /\ LET zsort == npsort(c_args.zarray)
       IN  IF c_args.zwidth = <<>>
           THEN IF 1 \in DOMAIN zsort
                THEN /\ c_zhalf' = RDiv(Rat(Abs(zsort[1] - zsort[0])), Rat(2))
                     /\ c_pc' = "split"
                     /\ c_err' = c_err
                ELSE /\ c_pc' = "raised"
                     /\ c_err' = "IndexError"
                     /\ c_zhalf' = c_zhalf
           ELSE /\ c_zhalf' = RDiv(Rat(c_args.zwidth[1]), Rat(2))
                /\ c_pc' = "split"
                /\ c_err' = c_err
    /\ UNCHANGED <<svars, mvars, c_args, c_lsections, c_k, c_cla, c_writes>>

\* lines 57-59: np.array_split raises ValueError for 0 sections
CSplit ==
    /\ c_pc = "split"
    /\ LET nsec == c_args.lmax \div 5
       IN  IF nsec <= 0
           THEN /\ c_pc' = "raised"
                /\ c_err' = "ValueError"
                /\ UNCHANGED <<c_lsections, c_cla>>
           ELSE /\ c_lsections' = array_split(c_args.lmax + 1, nsec)
                /\ c_cla' = [l \in 0 .. c_args.lmax |->
                                [i \in DOMAIN c_args.zarray |->
                                    [j \in DOMAIN c_args.zarray |-> Rat(0)]]]
                /\ c_pc' = "loop"
                /\ c_err' = c_err
    /\ UNCHANGED <<svars, mvars, c_args, c_zhalf, c_k, c_writes>>

\* lines 61-73: one turn of the loop over lsections
CChunk ==
    /\ c_pc = "loop"
    /\ c_k < Len(c_lsections)
    /\ LET lsec == c_lsections[c_k + 1]
           ls == {lsec[x] : x \in DOMAIN lsec}
       IN  /\ c_cla' = [l \in DOMAIN c_cla |->
                IF l \in ls
                THEN [i \in DOMAIN c_args.zarray |->
                         [j \in DOMAIN c_args.zarray |->
                             ClarrayBin(c_args.aps, l, c_args.zarray, c_zhalf,
                                        c_args.zromb, i, j)]]
                ELSE c_cla[l]]
           /\ c_writes' = [l \in DOMAIN c_writes |->
                IF l \in ls THEN c_writes[l] + 1 ELSE c_writes[l]]
    /\ c_k' = c_k + 1
    /\ UNCHANGED <<svars, mvars, c_args, c_pc, c_zhalf, c_lsections, c_err>>

\* line 75
CReturn ==
    /\ c_pc = "loop"
    /\ c_k = Len(c_lsections)
    /\ c_pc' = "returned"
    /\ UNCHANGED <<svars, mvars, c_args, c_zhalf, c_lsections, c_k, c_cla, c_writes, c_err>>

CNext == CReturnDirect \/ CBinWidth \/ CSplit \/ CChunk \/ CReturn

-----------------------------------------------------------------------------
(* mkfullsky and mkfullsky_der1 *)

\* A covariance tensor is given by its shape <<lmax + 1, n1, n2>>; its values
\* enter the result only through the factorization, kept symbolic.
SkyShapes == (1 .. MaxL) \X (1 .. MaxNumz) \X (1 .. MaxNumz)

SkyInputs ==
    {a \in [fn : {"mkfullsky", "mkfullsky_der1"},
            isList : BOOLEAN,
            corr : UNION {[1 .. n -> SkyShapes] : n \in 1 .. MaxCorr},
            alms : BOOLEAN,
            given : BOOLEAN] :
        ~a.isList => Len(a.corr) = 1}

\* lines 108-111 / 187-190
ncorr(a) == Len(a.corr)
numz(a) == a.corr[1][2]
maxl(a) == a.corr[1][1] - 1

NoNoise == <<"none", 0>>
ZeroAlm == <<"zero", 0, 0>>

\* a variant that draws whether or not gaussvars_list is given
GaussvarsDrawnAnyway(given, l, draws) ==
    [noise |-> <<"draw", draws + 1>>, draws |-> draws + 1]

\* lines 124-127 / 203-206: the gaussvars of multipole l and the draw count
Gaussvars(given, l, draws) ==
    IF ~given
    THEN [noise |-> <<"draw", draws + 1>>, draws |-> draws + 1]
    ELSE [noise |-> <<"given", l>>, draws |-> draws]

\* the keyword arguments of the call of nputil.matrix_root_manynull
\* (line 133-135 in mkfullsky, line 212 in mkfullsky_der1, which leaves
\* fixed_ev_sign_convention at its default)
RootRequest(fn) ==
    IF fn = "mkfullsky"
    THEN [truncate |-> FALSE, fixed_ev_sign_convention |-> TRUE]
    ELSE [truncate |-> FALSE, fixed_ev_sign_convention |-> FALSE]

\* nputil.matrix_root_manynull: the sign of the root it returns relative to
\* the root of the fixed sign convention; without the convention the
\* eigenvector signs are those the eigensolver happens to give
matrix_root_manynull(req, solver_sign) ==
    IF req.fixed_ev_sign_convention THEN 1 ELSE solver_sign

\* lines 130-136 / 209-213 for tensor shape sh at multipole l: the exception
\* numpy raises, "" when the statements go through
TensorStepError(sh, nz, l) ==
    LET a == sh[2]
        b == sh[3]
        compat(x) == x = nz \/ x = 1 \/ nz = 1
        r == IF a > nz THEN a ELSE nz
        c == IF b > nz THEN b ELSE nz
    IN  IF l >= sh[1] THEN "IndexError"
        ELSE IF ~(compat(a) /\ compat(b)) THEN "ValueError"
        ELSE IF r # c THEN "ValueError"
        ELSE IF r # nz THEN "ValueError"
        ELSE ""

\* a variant that decides on the type of the input instead of ncorr
SkyReturnByInputType(isList, items) ==
    IF ~isList
    THEN [bare |-> TRUE, items |-> <<items[1]>>]
    ELSE [bare |-> FALSE, items |-> items]

\* lines 138-153 / 215-247: what is returned for the per-tensor results
SkyReturn(isList, items) ==
    IF Len(items) = 1
    THEN [bare |-> TRUE, items |-> <<items[1]>>]
    ELSE [bare |-> FALSE, items |-> items]

NoResult == [bare |-> FALSE, items |-> <<>>]

SInit ==
    /\ s_args \in SkyInputs
    /\ s_pc = "start"
    /\ s_l = 0
    /\ s_ii = 0
    /\ s_draws = 0
    /\ s_gaussvars = NoNoise
    /\ s_noise = <<>>
    /\ s_requests = {}
    /\ s_alm = <<>>
    /\ s_out = <<>>
    /\ s_result = NoResult
    /\ s_err = ""
    /\ m_args = MIdle[1] /\ m_pc = MIdle[2] /\ m_i = MIdle[3]
    /\ m_trans = MIdle[4] /\ m_tmat = MIdle[5] /\ m_cmap = MIdle[6]
    /\ m_cv = MIdle[7] /\ m_solves = MIdle[8] /\ m_result = MIdle[9]
    /\ m_err = MIdle[10]
    /\ c_args = CIdle[1] /\ c_pc = CIdle[2] /\ c_zhalf = CIdle[3]
    /\ c_lsections = CIdle[4] /\ c_k = CIdle[5] /\ c_cla = CIdle[6]
    /\ c_writes = CIdle[7] /\ c_err = CIdle[8]

\* lines 106-119 / 185-198
SCheckShape ==
    /\ s_pc = "start"
    /\ IF s_args.corr[1][3] # numz(s_args)
       THEN /\ s_pc' = "raised"
            /\ s_err' = "Exception"
            /\ UNCHANGED <<s_alm, s_noise>>
       ELSE /\ s_pc' = "noise"
            /\ s_alm' = [ii \in 1 .. ncorr(s_args) |->
                            [l \in 0 .. maxl(s_args) |-> ZeroAlm]]
            /\ s_noise' = [l \in 0 .. maxl(s_args) |-> NoNoise]
            /\ s_err' = s_err
    /\ UNCHANGED <<cvars, mvars, s_args, s_l, s_ii, s_draws, s_gaussvars, s_requests, s_out,
                   s_result>>

\* lines 123-127 / 202-206
SNoise ==
    /\ s_pc = "noise"
    /\ s_l <= maxl(s_args)
    /\ LET g == Gaussvars(s_args.given, s_l, s_draws)
       IN  /\ s_gaussvars' = g.noise
           /\ s_draws' = g.draws
           /\ s_noise' = [s_noise EXCEPT ![s_l] = g.noise]
    /\ s_ii' = 1
    /\ s_pc' = "tensor"
    /\ UNCHANGED <<cvars, mvars, s_args, s_l, s_requests, s_alm, s_out, s_result, s_err>>

\* lines 128-136 / 207-213: one turn of the loop over the tensors
STensor ==
    /\ s_pc = "tensor"
    /\ s_ii <= ncorr(s_args)
    /\ LET e == TensorStepError(s_args.corr[s_ii], numz(s_args), s_l)
           req == RootRequest(s_args.fn)
       IN  IF e # ""
           THEN /\ s_pc' = "raised"
                /\ s_err' = e
                /\ UNCHANGED <<s_ii, s_requests, s_alm>>
           ELSE \E solver_sign \in {1, -1} :
                /\ s_requests' = s_requests \cup
                       {[ii |-> s_ii, l |-> s_l, kw |-> req]}
                /\ s_alm' = [s_alm EXCEPT ![s_ii][s_l] =
                       <<s_gaussvars[1], s_gaussvars[2],
                         matrix_root_manynull(req, solver_sign)>>]
                /\ s_ii' = s_ii + 1
                /\ UNCHANGED <<s_pc, s_err>>
    /\ UNCHANGED <<cvars, mvars, s_args, s_l, s_draws, s_gaussvars, s_noise, s_out, s_result>>

\* the inner loop is done: next multipole
SNextL ==
    /\ s_pc = "tensor"
    /\ s_ii > ncorr(s_args)
    /\ s_l' = s_l + 1
    /\ s_pc' = "noise"
    /\ UNCHANGED <<cvars, mvars, s_args, s_ii, s_draws, s_gaussvars, s_noise, s_requests,
                   s_alm, s_out, s_result, s_err>>

\* lines 138-142 / 215-219
SReturnAlms ==
    /\ s_pc = "noise"
    /\ s_l > maxl(s_args)
    /\ s_args.alms
    /\ s_result' = SkyReturn(s_args.isList,
           [ii \in 1 .. ncorr(s_args) |-> [what |-> "alm", from |-> s_alm[ii]]])
    /\ s_pc' = "returned"
    /\ UNCHANGED <<cvars, mvars, s_args, s_l, s_ii, s_draws, s_gaussvars, s_noise, s_requests,
                   s_alm, s_out, s_err>>

\* lines 144 / 221
SStartSynth ==
    /\ s_pc = "noise"
    /\ s_l > maxl(s_args)
    /\ ~s_args.alms
    /\ s_ii' = 1
    /\ s_pc' = "synth"
    /\ UNCHANGED <<cvars, mvars, s_args, s_l, s_draws, s_gaussvars, s_noise, s_requests,
                   s_alm, s_out, s_result, s_err>>

\* lines 145-148 / 222-242: np.gradient along an axis of one element raises
SSynth ==
    /\ s_pc = "synth"
    /\ s_ii <= ncorr(s_args)
    /\ IF s_args.fn = "mkfullsky_der1" /\ numz(s_args) < 2
       THEN /\ s_pc' = "raised"
            /\ s_err' = "ValueError"
            /\ UNCHANGED <<s_ii, s_out>>
       ELSE /\ s_out' = Append(s_out,
                   [what |-> IF s_args.fn = "mkfullsky" THEN "sky" ELSE "resmaps",
                    from |-> s_alm[s_ii]])
            /\ s_ii' = s_ii + 1
            /\ UNCHANGED <<s_pc, s_err>>
    /\ UNCHANGED <<cvars, mvars, s_args, s_l, s_draws, s_gaussvars, s_noise, s_requests,
                   s_alm, s_result>>

\* lines 150-153 / 244-247
SReturnMaps ==
    /\ s_pc = "synth"
    /\ s_ii > ncorr(s_args)
    /\ s_result' = SkyReturn(s_args.isList, s_out)
    /\ s_pc' = "returned"
    /\ UNCHANGED <<cvars, mvars, s_args, s_l, s_ii, s_draws, s_gaussvars, s_noise, s_requests,
                   s_alm, s_out, s_err>>

SNext ==
    \/ SCheckShape
    \/ SNoise
    \/ STensor
    \/ SNextL
    \/ SReturnAlms
    \/ SStartSynth
    \/ SSynth
    \/ SReturnMaps

-----------------------------------------------------------------------------
(* mkconstrained *)

\* healpy.Alm.getlm(maxl): the (l, m) of each coefficient index, m-major
getlm(lmax) ==
    LET n == ((lmax + 1) * (lmax + 2)) \div 2
        idx(l, m) == (m * (2 * lmax + 1 - m)) \div 2 + l
    IN  [i \in 0 .. n - 1 |->
            CHOOSE lm \in (0 .. lmax) \X (0 .. lmax) :
                lm[2] <= lm[1] /\ idx(lm[1], lm[2]) = i]

\* la.eigh(corr[l])[1] for the covariance matrices tried: an orthonormal
\* eigenvector matrix (column k belongs to the k-th smallest eigenvalue), the
\* cyclic shift by s of the unit vectors, for odd s turned by the rotation
\* (3/5, 4/5) in the first two coordinates
Evecs(n, s) ==
    [z \in 0 .. n - 1 |-> [k \in 0 .. n - 1 |->
        LET c == (k + s) % n
        IN  IF s % 2 = 1 /\ n >= 2 /\ z <= 1 /\ c <= 1
            THEN IF z = c THEN <<3, 5>>
                 ELSE IF z = 0 THEN <<-4, 5>> ELSE <<4, 5>>
            ELSE IF z = c THEN Rat(1) ELSE Rat(0)]]

EvecsSet(n) == {Evecs(n, s) : s \in 0 .. n - 1}

\* healpy.map2alm(map, lmax)[index of (l, m)] of the constraint maps tried:
\* map 1 has monopole 3, map 2 has monopole 0 (values taken real)
map2alm(id, l, m) == IF id = 1 THEN Rat(l + 2 * m + 3) ELSE Rat(l * (m + 1))

MapIds == {1, 2}

\* the constraint lists tried on numz = n: 1..n constraints on any slices
\* (repeated ones included), the maps alternating from either map
ConstraintLists(n) ==
    UNION {{cs \in [0 .. k - 1 -> (0 .. n - 1) \X MapIds] :
               \A c \in 1 .. k - 1 : cs[c][2] # cs[c - 1][2]}
           : k \in 1 .. n}

ConsInputs ==
    UNION {
        [numz : {n}, n2 : 1 .. MaxNumz, maxl : {L - 1},
         evecs : [0 .. L - 1 -> EvecsSet(n)],
         constraints : ConstraintLists(n)]
        : n \in 1 .. MaxNumz, L \in 1 .. MaxL}

nmodes(a) == Len0(a.constraints)

\* line 292: la.eigh(corr[i])[1][:, -nmodes:].T
TopModes(evecs, nm, nz) ==
    [k \in 0 .. nm - 1 |-> [z \in 0 .. nz - 1 |-> evecs[z][nz - nm + k]]]

\* a variant that takes the slice after each constrained one
RestrictShifted(trans, constraints) ==
    [k \in DOMAIN trans |-> [c \in DOMAIN constraints |->
        trans[k][(constraints[c][1] + 1) % Len0(trans[k])]]]

\* line 293: trans[i][:, f_ind]
Restrict(trans, constraints) ==
    [k \in DOMAIN trans |-> [c \in DOMAIN constraints |-> trans[k][constraints[c][1]]]]

\* the matrix a without row r and column c
Minor(a, n, r, c) ==
    [i \in 0 .. n - 2 |-> [j \in 0 .. n - 2 |->
        a[IF i < r THEN i ELSE i + 1][IF j < c THEN j ELSE j + 1]]]

RECURSIVE Det(_, _)
Det(a, n) ==
    IF n = 0 THEN Rat(1)
    ELSE IF n = 1 THEN a[0][0]
    ELSE RSum([j \in 0 .. n - 1 |->
                  RMul(IF j % 2 = 0 THEN a[0][j] ELSE RNeg(a[0][j]),
                       Det(Minor(a, n, 0, j), n - 1))],
              0 .. n - 1)

Transpose(a) ==
    IF DOMAIN a = {} THEN a
    ELSE [c \in DOMAIN a[0] |-> [k \in DOMAIN a |-> a[k][c]]]

\* la.solve(a, b) for a non-singular a (Cramer's rule)
Solve(a, b, n) ==
    [k \in 0 .. n - 1 |->
        RDiv(Det([r \in 0 .. n - 1 |-> [c \in 0 .. n - 1 |->
                     IF c = k THEN b[r] ELSE a[r][c]]], n),
             Det(a, n))]

\* np.dot(trans[l].T, amp)
Project(trans, amp, nz) ==
    [z \in 0 .. nz - 1 |->
        RSum([k \in DOMAIN trans |-> RMul(trans[k][z], amp[k])], DOMAIN trans)]

\* a variant whose solve returns whatever the division gives on a singular
\* system instead of raising
SolveColumnNoRaise(trans, tmat, b, nz) ==
    LET a == Transpose(tmat)
        n == Len0(b)
    IN  [singular |-> FALSE, solved |-> TRUE,
         col |-> Project(trans, Solve(a, b, n), nz)]

\* line 305: np.dot(trans[l].T, la.solve(tmat[l].T, cmap[i])); singular says
\* that la.solve raises LinAlgError
SolveColumn(trans, tmat, b, nz) ==
    LET a == Transpose(tmat)
        n == Len0(b)
    IN  IF Det(a, n) = Rat(0)
        THEN [singular |-> TRUE, solved |-> TRUE, col |-> [z \in 0 .. nz - 1 |-> Rat(0)]]
        ELSE [singular |-> FALSE, solved |-> TRUE,
              col |-> Project(trans, Solve(a, b, n), nz)]

\* a variant without the l == 0 case
CvColumnSolveAll(l, trans, tmat, b, nz) == SolveColumn(trans, tmat, b, nz)

\* lines 302-305: the column cv[:, i] of a coefficient index of multipole l
CvColumn(l, trans, tmat, b, nz) ==
    IF l = 0
    THEN [singular |-> FALSE, solved |-> FALSE, col |-> [z \in 0 .. nz - 1 |-> Rat(0)]]
    ELSE SolveColumn(trans, tmat, b, nz)

MInit ==
    /\ m_args \in ConsInputs
    /\ m_pc = "start"
    /\ m_i = 0
    /\ m_trans = <<>>
    /\ m_tmat = <<>>
    /\ m_cmap = <<>>
    /\ m_cv = <<>>
    /\ m_solves = {}
    /\ m_result = <<>>
    /\ m_err = ""
    /\ c_args = CIdle[1] /\ c_pc = CIdle[2] /\ c_zhalf = CIdle[3]
    /\ c_lsections = CIdle[4] /\ c_k = CIdle[5] /\ c_cla = CIdle[6]
    /\ c_writes = CIdle[7] /\ c_err = CIdle[8]
    /\ s_args = SIdle[1] /\ s_pc = SIdle[2] /\ s_l = SIdle[3]
    /\ s_ii = SIdle[4] /\ s_draws = SIdle[5] /\ s_gaussvars = SIdle[6]
    /\ s_noise = SIdle[7] /\ s_requests = SIdle[8] /\ s_alm = SIdle[9]
    /\ s_out = SIdle[10] /\ s_result = SIdle[11] /\ s_err = SIdle[12]

\* lines 269-286
MSetup ==
    /\ m_pc = "start"
    /\ IF m_args.n2 # m_args.numz
       THEN /\ m_pc' = "raised"
            /\ m_err' = "Exception"
            /\ UNCHANGED <<m_trans, m_tmat, m_cmap, m_cv>>
       ELSE LET zero == [k \in 0 .. nmodes(m_args) - 1 |->
                            [z \in 0 .. m_args.numz - 1 |-> Rat(0)]]
                coefs == DOMAIN getlm(m_args.maxl)
            IN  /\ m_trans' = [l \in 0 .. m_args.maxl |-> zero]
                /\ m_tmat' = [l \in 0 .. m_args.maxl |-> Restrict(zero, m_args.constraints)]
                /\ m_cmap' = [i \in coefs |-> [c \in DOMAIN m_args.constraints |-> Rat(0)]]
                /\ m_cv' = [z \in 0 .. m_args.numz - 1 |-> [i \in coefs |-> Rat(0)]]
                /\ m_pc' = "eig"
                /\ m_err' = m_err
    /\ UNCHANGED <<cvars, svars, m_args, m_i, m_solves, m_result>>

\* lines 291-293: one turn of the loop over the multipoles
MEig ==
    /\ m_pc = "eig"
    /\ m_i <= m_args.maxl
    /\ LET t == TopModes(m_args.evecs[m_i], nmodes(m_args), m_args.numz)
       IN  /\ m_trans' = [m_trans EXCEPT ![m_i] = t]
           /\ m_tmat' = [m_tmat EXCEPT ![m_i] = Restrict(t, m_args.constraints)]
    /\ m_i' = m_i + 1
    /\ UNCHANGED <<cvars, svars, m_args, m_pc, m_cmap, m_cv, m_solves, m_result, m_err>>

\* lines 296-297: the constraint maps in harmonic space
MAnalyze ==
    /\ m_pc = "eig"
    /\ m_i > m_args.maxl
    /\ LET lm == getlm(m_args.maxl)
       IN  m_cmap' = [i \in DOMAIN lm |-> [c \in DOMAIN m_args.constraints |->
                         map2alm(m_args.constraints[c][2], lm[i][1], lm[i][2])]]
    /\ m_i' = 0
    /\ m_pc' = "solve"
    /\ UNCHANGED <<cvars, svars, m_args, m_trans, m_tmat, m_cv, m_solves, m_result, m_err>>

\* lines 301-305: one turn of the loop over the coefficients
MSolve ==
    /\ m_pc = "solve"
    /\ m_i \in DOMAIN getlm(m_args.maxl)
    /\ LET l == getlm(m_args.maxl)[m_i][1]
           r == CvColumn(l, m_trans[l], m_tmat[l], m_cmap[m_i], m_args.numz)
       IN  /\ m_solves' = IF r.solved THEN m_solves \cup {m_i} ELSE m_solves
           /\ IF r.singular
              THEN /\ m_pc' = "raised"
                   /\ m_err' = "LinAlgError"
                   /\ UNCHANGED <<m_cv, m_i>>
              ELSE /\ m_cv' = [z \in DOMAIN m_cv |-> [m_cv[z] EXCEPT ![m_i] = r.col[z]]]
                   /\ m_i' = m_i + 1
                   /\ UNCHANGED <<m_pc, m_err>>
    /\ UNCHANGED <<cvars, svars, m_args, m_trans, m_tmat, m_cmap, m_result>>

\* lines 307-312: hpmaps[i] = alm2map(cv[i]); a map is given by its coefficients
MReturn ==
    /\ m_pc = "solve"
    /\ m_i \notin DOMAIN getlm(m_args.maxl)
    /\ m_result' = m_cv
    /\ m_pc' = "returned"
    /\ UNCHANGED <<cvars, svars, m_args, m_i, m_trans, m_tmat, m_cmap, m_cv, m_solves,
                   m_err>>

MNext == MSetup \/ MEig \/ MAnalyze \/ MSolve \/ MReturn

SpecClarray == CInit /\ [][CNext]_vars

SpecSky == SInit /\ [][SNext]_vars

SpecCons == MInit /\ [][MNext]_vars


-----------------------------------------------------------------------------
(* Properties of clarray, checked under SpecClarray. *)

\* C1: with zromb == 0 clarray returns exactly aps(l, zarray[i], zarray[j])
\* for every l in 0..lmax and every pair i, j, in zarray's given order; no
\* integration step runs (no cla[l] is assigned, zhalf is never computed from
\* zwidth)
C1_DirectEvaluation ==
    (c_pc = "returned" /\ c_args.zromb = 0) =>
        /\ DOMAIN c_cla = 0 .. c_args.lmax
        /\ \A l \in DOMAIN c_cla :
               /\ DOMAIN c_cla[l] = DOMAIN c_args.zarray
               /\ \A i \in DOMAIN c_args.zarray :
                      /\ DOMAIN c_cla[l][i] = DOMAIN c_args.zarray
                      /\ \A j \in DOMAIN c_args.zarray :
                             c_cla[l][i][j] =
                                 aps(c_args.aps, l, Rat(c_args.zarray[i]),
                                     Rat(c_args.zarray[j]))
        /\ \A l \in DOMAIN c_writes : c_writes[l] = 0
        /\ c_zhalf = NaN
        /\ c_lsections = <<>>

\* a direct evaluation on an unsorted zarray with a zwidth given
C1_Witness ==
    /\ c_pc = "returned"
    /\ c_args.zromb = 0
    /\ c_args.aps = 2
    /\ c_args.zwidth # <<>>
    /\ 1 \in DOMAIN c_args.zarray
    /\ c_args.zarray[0] > c_args.zarray[1]
    /\ c_args.lmax >= 1

DistinctValues(a) == {a[i] : i \in DOMAIN a}

\* C6: clarray with zromb != 0 and zwidth unset never returns a tensor when
\* zarray has fewer than 2 distinct values
C6_DegenerateRaises ==
    (/\ c_pc \in {"start", "split", "loop", "returned", "raised"}
     /\ c_args.zromb # 0
     /\ c_args.zwidth = <<>>
     /\ Cardinality(DistinctValues(c_args.zarray)) < 2)
        => c_pc # "returned"

SectionSet(sec) == {sec[x] : x \in DOMAIN sec}

\* the sections are non-empty, contiguous, in order, and cover 0..lmax
ChunksPartition(secs, lmax) ==
    /\ Len(secs) >= 1
    /\ \A s \in 1 .. Len(secs) :
           /\ DOMAIN secs[s] # {}
           /\ \A x \in DOMAIN secs[s] : secs[s][x] = secs[s][0] + x
    /\ secs[1][0] = 0
    /\ \A s \in 1 .. Len(secs) - 1 :
           secs[s + 1][0] = secs[s][0] + Len0(secs[s])
    /\ UNION {SectionSet(secs[s]) : s \in 1 .. Len(secs)} = 0 .. lmax

\* C9: with zromb != 0, for every lmax >= 0 the chunking never fails, the
\* chunks are contiguous, disjoint and cover 0..lmax, and a call that returns
\* has written every C[l] exactly once
C9_ChunksCoverEveryLmax ==
    (c_pc \in {"loop", "returned", "raised"} /\ c_args.zromb # 0) =>
        /\ c_err # "ValueError"
        /\ c_pc \in {"loop", "returned"} =>
               ChunksPartition(c_lsections, c_args.lmax)
        /\ c_pc = "returned" => \A l \in 0 .. c_args.lmax : c_writes[l] = 1

-----------------------------------------------------------------------------
(* Properties of mkfullsky and mkfullsky_der1, checked under SpecSky. *)

Started(l) == l \in DOMAIN s_noise /\ s_noise[l] # NoNoise

\* C2: the noise array of a multipole is obtained exactly once, by one draw
\* when gaussvars_list is None and as gaussvars_list[l] with no draw
\* otherwise, and every tensor's coefficients of that multipole use it; a call
\* that returns has drawn lmax+1 times or never, whatever the number of
\* tensors
C2_NoiseOncePerMultipole ==
    /\ s_draws = IF s_args.given THEN 0
                 ELSE Cardinality({l \in DOMAIN s_noise : Started(l)})
    /\ \A l \in DOMAIN s_noise :
           Started(l) =>
               s_noise[l] = IF s_args.given THEN <<"given", l>>
                            ELSE <<"draw", l + 1>>
    /\ \A ii \in DOMAIN s_alm : \A l \in DOMAIN s_alm[ii] :
           s_alm[ii][l] # ZeroAlm =>
               <<s_alm[ii][l][1], s_alm[ii][l][2]>> = s_noise[l]
    /\ s_pc = "returned" =>
           /\ s_draws = IF s_args.given THEN 0 ELSE maxl(s_args) + 1
           /\ \A ii \in 1 .. ncorr(s_args) : \A l \in 0 .. maxl(s_args) :
                  s_alm[ii][l] # ZeroAlm

\* two tensors, two multipoles, noise drawn on the fly, the call returned
C2_Witness ==
    /\ s_pc = "returned"
    /\ ncorr(s_args) = 2
    /\ maxl(s_args) = 1
    /\ ~s_args.given
    /\ s_draws = 2
    /\ s_alm[1][1][2] = 2 /\ s_alm[2][1][2] = 2

\* the tensors are all of one shape (lmax+1, numz, numz)
ShapesConsistent(a) ==
    \A k \in 1 .. Len(a.corr) :
        /\ a.corr[k][2] = a.corr[k][3]
        /\ a.corr[k] = a.corr[1]

\* C5: when the tensors are not all of one shape (lmax+1, numz, numz) the call
\* ends in the shape error at once: nothing is drawn and nothing is returned
C5_ShapeMismatchFatal ==
    (s_pc # "idle" /\ ~ShapesConsistent(s_args)) =>
        /\ s_draws = 0
        /\ s_pc \in {"start", "raised"}
        /\ s_result = NoResult

C10_SameFactorization ==
    /\ \A r \in s_requests :
           r.kw = [truncate |-> FALSE, fixed_ev_sign_convention |-> TRUE]
    /\ (s_pc = "returned" /\ s_args.alms) =>
           \A ii \in 1 .. ncorr(s_args) : \A l \in 0 .. maxl(s_args) :
               s_alm[ii][l] = <<s_noise[l][1], s_noise[l][2], 1>>

-----------------------------------------------------------------------------
(* Properties of mkconstrained, checked under SpecCons. *)

Coefs == DOMAIN getlm(m_args.maxl)

Multipole(i) == getlm(m_args.maxl)[i][1]

\* C3: every coefficient with l = 0 of every slice of the output is exactly
\* zero, whatever the constraint maps, and la.solve is never called for l = 0
C3_MonopoleZero ==
    /\ \A i \in m_solves : Multipole(i) # 0
    /\ m_pc = "returned" =>
           \A z \in DOMAIN m_result : \A i \in Coefs :
               Multipole(i) = 0 => m_result[z][i] = Rat(0)

\* a call that returned although a constraint map has a non-zero monopole
C3_Witness ==
    /\ m_pc = "returned"
    /\ m_args.maxl >= 1
    /\ \E c \in DOMAIN m_args.constraints :
           map2alm(m_args.constraints[c][2], 0, 0) # Rat(0)

ConstraintAlm(c, i) ==
    map2alm(m_args.constraints[c][2], getlm(m_args.maxl)[i][1], getlm(m_args.maxl)[i][2])

\* C4 as stated: with a single constraint (f, fixed_map) the output at slice f
\* has the coefficients of fixed_map at every (l, m), l in 0..lmax
C4_ReproducesAllMultipoles ==
    (m_pc = "returned" /\ nmodes(m_args) = 1) =>
        \A i \in Coefs :
            m_result[m_args.constraints[0][1]][i] = ConstraintAlm(0, i)

\* C4: with a single constraint (f, fixed_map) the output at slice f has the
\* coefficients of fixed_map at every (l, m) with l in 1..lmax, and the
\* coefficient zero at l = 0
C4_ReproducesAboveMonopole ==
    (m_pc = "returned" /\ nmodes(m_args) = 1) =>
        \A i \in Coefs :
            m_result[m_args.constraints[0][1]][i] =
                IF Multipole(i) = 0 THEN Rat(0) ELSE ConstraintAlm(0, i)

\* one constraint on a two-slice tensor whose leading eigenvector mixes the
\* slices, the map with non-zero coefficients
C4_Witness ==
    /\ m_pc = "returned"
    /\ nmodes(m_args) = 1
    /\ m_args.numz = 2
    /\ m_args.maxl = 1
    /\ m_args.constraints[0][2] = 1
    /\ m_args.evecs[1] = Evecs(2, 1)
    /\ m_result[0][1] # Rat(0) /\ m_result[1][1] # Rat(0)

EigDone == m_pc \in {"solve", "returned"} \/ (m_pc = "raised" /\ m_err = "LinAlgError")

SingularAt(l) == Det(Transpose(m_tmat[l]), nmodes(m_args)) = Rat(0)

\* C7 as stated: a call with tmat[l] singular for some l in 0..lmax returns no
\* maps
C7_SingularAnyMultipoleFatal ==
    (EigDone /\ \E l \in 0 .. m_args.maxl : SingularAt(l)) =>
        /\ m_pc # "returned"
        /\ m_result = <<>>

\* C7: a call with tmat[l] singular for some l in 1..lmax returns no maps: it
\* is in the solve loop or has ended in LinAlgError, and no column is computed
\* from a singular system
C7_SingularFatal ==
    (EigDone /\ \E l \in 1 .. m_args.maxl : SingularAt(l)) =>
        /\ m_pc \in {"solve", "raised"}
        /\ m_result = <<>>
        /\ \A i \in m_solves : ~SingularAt(Multipole(i)) \/ m_pc = "raised"

\* two constraints on the same slice: the solve of the first l = 1 coefficient
\* raised
C7_Witness ==
    /\ m_pc = "raised"
    /\ m_err = "LinAlgError"
    /\ nmodes(m_args) = 2
    /\ m_args.constraints[0][1] = m_args.constraints[1][1]
    /\ m_result = <<>>

=============================================================================
